---- MODULE Spec2Model ----
(***************************************************************************)
(* Model of bottle_couchdb.CouchDBPlugin (src/bottle_couchdb.py).          *)
(*                                                                         *)
(* The plugin is installed on one host application (setup), bound to the   *)
(* application's routes (apply) and the bound callbacks are invoked by the *)
(* host, possibly concurrently.  The CouchDB client is the environment: a  *)
(* server holds a set of database names, every client call may fail.       *)
(***************************************************************************)
EXTENDS Naturals, Sequences, FiniteSets

VARIABLES
    plugin,     \* plugin id -> the instance's fields (set by __init__)
    routeArgs,  \* route -> formal parameter names of the route's original callback
    routeConf,  \* route -> context.config.get('couchdb')
    installed,  \* app.plugins, in installation order
    lastSetup,  \* the install attempt the host made last, until it binds a route:
                \* the plugin and whether its setup raised
    applied,    \* route -> plugins whose apply() was called for the route
    callback,   \* route -> the bound callback: wrapper layers, outermost first
    dbs,        \* server url -> names of the databases that exist on it
    nconn,      \* number of couchdb.Server objects constructed so far
    inv         \* invocation id -> state of that call of a bound callback

vars == <<plugin, routeArgs, routeConf, installed, lastSetup, applied,
          callback, dbs, nconn, inv>>

----------------------------------------------------------------------------
(* Bounds and the small sets the inputs are drawn from *)

MaxCalls == 1        \* calls of bound callbacks in one behaviour of Spec
MaxThreads == 2      \* concurrent calls of bound callbacks in SpecConc

PluginIds == {"p1", "p2", "f"}
Routes == {"r1", "r2"}
Servers == {"s1", "s2"}
Fields == {"server_name", "db_name", "keyword"}
Errors == {"ServerError"}

\* The value a route override gives to a field (different from every default).
OverrideValue(field) ==
    CASE field = "server_name" -> "s2"
      [] field = "db_name" -> "b"
      [] field = "keyword" -> "k"

PluginChoices(p) ==
    CASE p = "p1" -> {[kind |-> "couchdb", db_name |-> "a", server_name |-> "s1",
                       keyword |-> "db"]}
      [] p = "p2" -> {[kind |-> "couchdb", db_name |-> "c", server_name |-> "s1",
                       keyword |-> k] : k \in {"db", "db2"}}
      [] p = "f"  -> {[kind |-> "other", db_name |-> "", server_name |-> "",
                       keyword |-> "db"]}

ParamChoices(r) ==
    IF r = "r1"
    THEN {<<"item">>, <<"item", "db">>, <<"item", "db", "db2">>, <<"item", "k">>}
    ELSE {<<"item", "db">>}

\* A route's 'couchdb' configuration: missing, or a mapping over a subset of
\* the three fields.
ConfChoices(r) ==
    {[present |-> FALSE, map |-> <<>>]} \cup
    IF r = "r1"
    THEN {[present |-> TRUE, map |-> [f \in S |-> OverrideValue(f)]] :
            S \in SUBSET Fields}
    ELSE {}

\* Values a caller passes, and the handles the client returns, have one shape.
UserValue(v) == [kind |-> "user", server |-> "", name |-> v, conn |-> 0, how |-> ""]

CallChoices ==
    { [args |-> <<UserValue("42")>>, kwargs |-> <<>>],
      [args |-> <<>>, kwargs |-> [k \in {"item", "db", "k"} |-> UserValue(k)]] }

NoServer == [url |-> "", id |-> 0]
NoValue == [kind |-> "none", server |-> "", name |-> "", conn |-> 0, how |-> ""]
NoResult == [route |-> "", args |-> <<>>, kwargs |-> <<>>]

IdleInv == [st |-> "idle", route |-> "", cargs |-> <<>>, ckwargs |-> <<>>,
            pc |-> "", rest |-> <<>>, args |-> <<>>, kwargs |-> <<>>,
            frames |-> <<>>, result |-> NoResult, ncalls |-> 0, err |-> "",
            before |-> {}]

----------------------------------------------------------------------------
(* Helpers *)

Range(s) == {s[i] : i \in 1..Len(s)}

\* dict.get(key, default)
Get(d, key, default) == IF key \in DOMAIN d THEN d[key] ELSE default

\* kwargs[key] = value
SetItem(d, key, value) ==
    [k \in (DOMAIN d) \cup {key} |-> IF k = key THEN value ELSE d[k]]

InvIds == DOMAIN inv

----------------------------------------------------------------------------
(* CouchDBPlugin.__init__, setup, apply, close *)

\* __init__ stores its three arguments; the instances are constructed before
\* the application starts.
Init ==
    /\ plugin \in {f \in [PluginIds -> UNION {PluginChoices(p) : p \in PluginIds}] :
                      \A p \in PluginIds : f[p] \in PluginChoices(p)}
    /\ routeArgs \in {f \in [Routes -> UNION {ParamChoices(r) : r \in Routes}] :
                      \A r \in Routes : f[r] \in ParamChoices(r)}
    /\ routeConf \in {f \in [Routes -> UNION {ConfChoices(r) : r \in Routes}] :
                      \A r \in Routes : f[r] \in ConfChoices(r)}
    /\ installed = <<>>
    /\ lastSetup = [plugin |-> "", raised |-> FALSE]
    /\ applied = [r \in Routes |-> {}]
    /\ callback = [r \in Routes |-> <<>>]
    /\ dbs = [s \in Servers |-> IF s = "s1" THEN {"a"} ELSE {}]
    /\ nconn = 0
    /\ inv = [i \in 1..MaxCalls |-> IdleInv]

\* A setup that does not skip the plugins of other kinds.
SetupRaisesAnyKind(p, plugins) ==
    \E i \in 1..Len(plugins) : plugin[plugins[i]].keyword = plugin[p].keyword

\* setup(): TRUE when it raises PluginError.
SetupRaises(p, plugins) ==
    \E i \in 1..Len(plugins) :
        /\ plugin[plugins[i]].kind = "couchdb"
        /\ plugin[plugins[i]].keyword = plugin[p].keyword

\* The host's install: call the plugin's setup with the installed plugins and
\* add the plugin unless setup raised.  A plugin of another kind has no such
\* check; it is installed first, where the instances installed after it see
\* it.  Plugins are installed before the first route is bound and the first
\* request is dispatched.
Install(p) ==
    /\ \A r \in Routes : applied[r] = {}
    /\ \A i \in InvIds : inv[i].st = "idle"
    /\ plugin[p].kind = "other" => installed = <<>>
    /\ LET raised == plugin[p].kind = "couchdb" /\ SetupRaises(p, installed)
       IN /\ installed' = IF raised THEN installed ELSE Append(installed, p)
          /\ lastSetup' = [plugin |-> p, raised |-> raised]
    /\ UNCHANGED <<plugin, routeArgs, routeConf, applied, callback, dbs, nconn, inv>>

\* conf = context.config.get('couchdb') or {}
Conf(r) == IF routeConf[r].present THEN routeConf[r].map ELSE <<>>

\* The closure apply() builds: the wrapper with the names it captured.
Wrapper(p, server_name, db_name, keyword) ==
    [kind |-> "wrapper", plugin |-> p, server_name |-> server_name,
     db_name |-> db_name, keyword |-> keyword]

\* An apply that wraps every callback.
ApplyResultAlways(p, r, cb) ==
    LET conf == Conf(r)
    IN <<Wrapper(p, Get(conf, "server_name", plugin[p].server_name),
                 Get(conf, "db_name", plugin[p].db_name),
                 Get(conf, "keyword", plugin[p].keyword))>> \o cb

\* An apply that decides by the plugin's own keyword.
ApplyResultOwnKeyword(p, r, cb) ==
    LET conf == Conf(r)
    IN IF plugin[p].keyword \notin Range(routeArgs[r])
       THEN cb
       ELSE <<Wrapper(p, Get(conf, "server_name", plugin[p].server_name),
                      Get(conf, "db_name", plugin[p].db_name),
                      Get(conf, "keyword", plugin[p].keyword))>> \o cb

\* An apply that inspects the callback it is given: a wrapper has no named
\* parameters.
ApplyResultOfGiven(p, r, cb) ==
    LET conf == Conf(r)
        keyword == Get(conf, "keyword", plugin[p].keyword)
    IN IF cb # <<>> \/ keyword \notin Range(routeArgs[r])
       THEN cb
       ELSE <<Wrapper(p, Get(conf, "server_name", plugin[p].server_name),
                      Get(conf, "db_name", plugin[p].db_name), keyword)>> \o cb

\* apply(callback, context): the callback it returns.  cb is the callback
\* passed in, routeArgs[r] the argspec of context.callback.
ApplyResult(p, r, cb) ==
    LET conf == Conf(r)
        server_name == Get(conf, "server_name", plugin[p].server_name)
        db_name == Get(conf, "db_name", plugin[p].db_name)
        keyword == Get(conf, "keyword", plugin[p].keyword)
    IN IF keyword \notin Range(routeArgs[r])
       THEN cb
       ELSE <<Wrapper(p, server_name, db_name, keyword)>> \o cb

\* The host binds a route: each installed instance is applied once, in any
\* order, to the callback the route has so far.
Apply(p, r) ==
    /\ p \in Range(installed)
    /\ plugin[p].kind = "couchdb"
    /\ p \notin applied[r]
    /\ applied' = [applied EXCEPT ![r] = @ \cup {p}]
    /\ callback' = [callback EXCEPT ![r] = ApplyResult(p, r, @)]
    /\ lastSetup' = [plugin |-> "", raised |-> FALSE]
    /\ UNCHANGED <<plugin, routeArgs, routeConf, installed, dbs, nconn, inv>>

\* close(): pass
Close(p) ==
    /\ p \in Range(installed)
    /\ plugin[p].kind = "couchdb"
    /\ UNCHANGED vars

----------------------------------------------------------------------------
(* One call of a bound callback: the wrapper of apply(), get_server,        *)
(* get_database.  Every line that talks to the server is one step, so that  *)
(* concurrent calls interleave between them.                                *)

Top(i) == inv[i].frames[Len(inv[i].frames)]

SetTop(i, f) == [inv[i].frames EXCEPT ![Len(inv[i].frames)] = f]

\* One client call in a frame's log: the call, the Server object it went to,
\* its argument and how it ended ("ok" or the exception it raised).
Op(name, conn, arg, out) == [op |-> name, conn |-> conn, arg |-> arg, out |-> out]

\* A wrapper that turns every exception into an HTTP error.
PropagateTranslated(e) == "HTTPError"

\* The wrapper has no try/except: what a client call raises leaves the wrapper.
Propagate(e) == e

\* The state of a call that a client call's exception ended; frames are the
\* call's frames with the failed client call logged.
Raised(i, frames, e) ==
    [inv[i] EXCEPT !.st = "raised", !.pc = "", !.frames = frames,
                   !.err = Propagate(e)]

Log(f, name, conn, out) ==
    [f EXCEPT !.ops = Append(@, Op(name, conn,
                                   IF name = "connect" THEN f.layer.server_name
                                   ELSE IF name = "call" THEN ""
                                   ELSE f.layer.db_name, out))]

\* The route's original callback is any function of what it is called with;
\* its result is taken to be the record of those.
Original(r, args, kwargs) == [route |-> r, args |-> args, kwargs |-> kwargs]

\* The host dispatches a request once the routes are bound.
Invoke(i, r, c) ==
    /\ inv[i].st = "idle"
    /\ \A j \in InvIds : j < i => inv[j].st # "idle"
    /\ \A q \in Routes :
          applied[q] = {p \in Range(installed) : plugin[p].kind = "couchdb"}
    /\ inv' = [inv EXCEPT ![i] =
                 [IdleInv EXCEPT !.st = "running", !.route = r, !.pc = "call",
                                 !.cargs = c.args, !.ckwargs = c.kwargs,
                                 !.rest = callback[r],
                                 !.args = c.args, !.kwargs = c.kwargs,
                                 !.before = {j \in InvIds :
                                               inv[j].st \in {"returned", "raised"}}]]
    /\ UNCHANGED <<plugin, routeArgs, routeConf, installed, lastSetup, applied,
                   callback, dbs, nconn>>

\* A get_server that hands out one Server object kept by the plugin.
GetServerCached(server_name) == [url |-> server_name, id |-> 1]

\* get_server(server_name): couchdb.Server(server_name), a new object.  The
\* wrapper always passes the server_name it captured.
GetServer(server_name) == [url |-> server_name, id |-> nconn + 1]

\* wrapper, line 98: couch = self.get_server(server_name)
WrapperConnect(i) ==
    /\ inv[i].st = "running" /\ inv[i].pc = "call"
    /\ inv[i].rest # <<>>
    /\ LET w == Head(inv[i].rest)
           f == [layer |-> w, conn |-> NoServer, present |-> FALSE, db |-> NoValue,
                 ops |-> <<>>,
                 inargs |-> inv[i].args, inkwargs |-> inv[i].kwargs,
                 outargs |-> <<>>, outkwargs |-> <<>>, delegated |-> FALSE]
       IN \/ /\ inv' = [inv EXCEPT ![i].frames =
                          Append(@, [Log(f, "connect", 0, "ok") EXCEPT !.conn =
                                        GetServer(w.server_name)]),
                                   ![i].pc = "contains"]
             /\ nconn' = nconn + 1
          \/ /\ \E e \in Errors :
                  inv' = [inv EXCEPT ![i] =
                            Raised(i, Append(inv[i].frames, Log(f, "connect", 0, e)), e)]
             /\ nconn' = nconn
    /\ UNCHANGED <<plugin, routeArgs, routeConf, installed, lastSetup, applied,
                   callback, dbs>>

\* get_database, line 70: db_name not in server
GetDatabaseContains(i) ==
    /\ inv[i].st = "running" /\ inv[i].pc = "contains"
    /\ LET f == Top(i)
       IN \/ inv' = [inv EXCEPT ![i].frames =
                        SetTop(i, [Log(f, "contains", f.conn.id, "ok") EXCEPT
                                     !.present = f.layer.db_name \in dbs[f.conn.url]]),
                                ![i].pc = "resolve"]
          \/ \E e \in Errors :
                inv' = [inv EXCEPT ![i] =
                          Raised(i, SetTop(i, Log(f, "contains", f.conn.id, e)), e)]
    /\ UNCHANGED <<plugin, routeArgs, routeConf, installed, lastSetup, applied,
                   callback, dbs, nconn>>

\* A get_database with the test inverted.
CreatesInverted(present) == present

\* A get_database that creates without regard to the test.
CreatesAlways(present) == TRUE

\* get_database, lines 70-73: which of create and lookup follows the test.
Creates(present) == ~present

\* A wrapper that keeps the caller's value: kwargs.setdefault(keyword, db)
InjectDefault(kwargs, keyword, db) ==
    IF keyword \in DOMAIN kwargs THEN kwargs ELSE SetItem(kwargs, keyword, db)

\* wrapper, line 103: kwargs[keyword] = db
Inject(kwargs, keyword, db) == SetItem(kwargs, keyword, db)

\* wrapper, lines 100-105, once get_database returned db to frame f:
\* kwargs[keyword] = db; return callback(*args, **kwargs)
Delegate(i, f, db) ==
    LET kw == Inject(inv[i].kwargs, f.layer.keyword, db)
    IN [inv[i] EXCEPT !.frames = SetTop(i, [Log(f, "call", 0, "ok") EXCEPT
                                                     !.db = db,
                                                     !.outargs = inv[i].args,
                                                     !.outkwargs = kw,
                                                     !.delegated = TRUE]),
                      !.kwargs = kw,
                      !.rest = Tail(@),
                      !.pc = "call"]

Handle(f, how) ==
    [kind |-> "handle", server |-> f.conn.url, name |-> f.layer.db_name,
     conn |-> f.conn.id, how |-> how]

\* get_database, line 71: db = server.create(db_name), then the wrapper goes
\* on with db.  The server refuses to create a database that exists.
GetDatabaseCreate(i) ==
    /\ inv[i].st = "running" /\ inv[i].pc = "resolve"
    /\ Creates(Top(i).present)
    /\ LET f == Top(i)
           fail(e) == Raised(i, SetTop(i, Log(f, "create", f.conn.id, e)), e)
       IN \/ /\ f.layer.db_name \notin dbs[f.conn.url]
             /\ dbs' = [dbs EXCEPT ![f.conn.url] = @ \cup {f.layer.db_name}]
             /\ inv' = [inv EXCEPT ![i] =
                          Delegate(i, Log(f, "create", f.conn.id, "ok"),
                                   Handle(f, "create"))]
          \/ /\ f.layer.db_name \in dbs[f.conn.url]
             /\ inv' = [inv EXCEPT ![i] = fail("PreconditionFailed")]
             /\ dbs' = dbs
          \/ /\ \E e \in Errors : inv' = [inv EXCEPT ![i] = fail(e)]
             /\ dbs' = dbs
    /\ UNCHANGED <<plugin, routeArgs, routeConf, installed, lastSetup, applied,
                   callback, nconn>>

\* get_database, line 73: db = server[db_name], then the wrapper goes on
\* with db.
GetDatabaseLookup(i) ==
    /\ inv[i].st = "running" /\ inv[i].pc = "resolve"
    /\ ~Creates(Top(i).present)
    /\ LET f == Top(i)
           fail(e) == Raised(i, SetTop(i, Log(f, "lookup", f.conn.id, e)), e)
       IN \/ /\ f.layer.db_name \in dbs[f.conn.url]
             /\ inv' = [inv EXCEPT ![i] =
                          Delegate(i, Log(f, "lookup", f.conn.id, "ok"),
                                   Handle(f, "lookup"))]
          \/ /\ f.layer.db_name \notin dbs[f.conn.url]
             /\ inv' = [inv EXCEPT ![i] = fail("ResourceNotFound")]
          \/ \E e \in Errors : inv' = [inv EXCEPT ![i] = fail(e)]
    /\ UNCHANGED <<plugin, routeArgs, routeConf, installed, lastSetup, applied,
                   callback, dbs, nconn>>

\* wrapper, line 105: what the wrapper returns, given what its callback returned.
WrapperReturn(result) == result

\* The original callback runs; every wrapper around it returns its result.
CallOriginal(i) ==
    /\ inv[i].st = "running" /\ inv[i].pc = "call"
    /\ inv[i].rest = <<>>
    /\ inv' = [inv EXCEPT ![i].st = "returned", ![i].pc = "",
                          ![i].ncalls = @ + 1,
                          ![i].result =
                             IF inv[i].frames = <<>>
                             THEN Original(inv[i].route, inv[i].args, inv[i].kwargs)
                             ELSE WrapperReturn(Original(inv[i].route, inv[i].args,
                                                         inv[i].kwargs))]
    /\ UNCHANGED <<plugin, routeArgs, routeConf, installed, lastSetup, applied,
                   callback, dbs, nconn>>

Next ==
    \/ \E p \in PluginIds : Install(p)
    \/ \E p \in PluginIds, r \in Routes : Apply(p, r)
    \/ \E p \in PluginIds : Close(p)
    \/ \E i \in InvIds, r \in Routes, c \in CallChoices : Invoke(i, r, c)
    \/ \E i \in InvIds : WrapperConnect(i)
    \/ \E i \in InvIds : GetDatabaseContains(i)
    \/ \E i \in InvIds : GetDatabaseCreate(i)
    \/ \E i \in InvIds : GetDatabaseLookup(i)
    \/ \E i \in InvIds : CallOriginal(i)

Spec == Init /\ [][Next]_vars

\* Concurrent calls: two instances with different keywords are installed on
\* an application whose server has no database yet; each wraps one of the
\* two routes, and one route overrides the name of the database.
InitConc ==
    /\ plugin = [p \in PluginIds |->
                   CASE p = "p1" -> [kind |-> "couchdb", db_name |-> "a",
                                     server_name |-> "s1", keyword |-> "db"]
                     [] p = "p2" -> [kind |-> "couchdb", db_name |-> "a",
                                     server_name |-> "s1", keyword |-> "db2"]
                     [] p = "f"  -> [kind |-> "other", db_name |-> "",
                                     server_name |-> "", keyword |-> "db"]]
    /\ routeArgs = [r \in Routes |->
                      IF r = "r1" THEN <<"item", "db">> ELSE <<"item", "db2">>]
    /\ routeConf = [r \in Routes |->
                      IF r = "r1"
                      THEN [present |-> FALSE, map |-> <<>>]
                      ELSE [present |-> TRUE,
                            map |-> [f \in {"db_name"} |-> OverrideValue(f)]]]
    /\ installed = <<"p1", "p2">>
    /\ lastSetup = [plugin |-> "p2", raised |-> FALSE]
    /\ applied = [r \in Routes |-> {}]
    /\ callback = [r \in Routes |-> <<>>]
    /\ dbs = [s \in Servers |-> {}]
    /\ nconn = 0
    /\ inv = [i \in 1..MaxThreads |-> IdleInv]

SpecConc == InitConc /\ [][Next]_vars

----------------------------------------------------------------------------
(* Properties *)

Couch(p) == plugin[p].kind = "couchdb"

\* The setting a route is to use for a field: its override if its 'couchdb'
\* configuration has one, the plugin's own value otherwise.
Expected(p, r, field) ==
    IF routeConf[r].present /\ field \in DOMAIN routeConf[r].map
    THEN routeConf[r].map[field]
    ELSE plugin[p][field]

Wants(p, r) == Expected(p, r, "keyword") \in Range(routeArgs[r])

Frames == UNION {{<<i, k>> : k \in 1..Len(inv[i].frames)} : i \in InvIds}

Frame(ik) == inv[ik[1]].frames[ik[2]]

HasOp(f, name) == \E n \in 1..Len(f.ops) : f.ops[n].op = name

LayersOf(p, r) == {k \in 1..Len(callback[r]) : callback[r][k].plugin = p}

Overlap(i, j) == i # j /\ i \notin inv[j].before /\ j \notin inv[i].before

\* C1: when the effective keyword is not among the parameter names of the
\* route's original callback, apply returns the callback it was given, and no
\* call of the route makes this plugin connect, test, create or look up; a
\* route no instance wraps is bound to the original callback itself.
C1_Unwrapped ==
    /\ [](\A r \in Routes :
            /\ \A p \in applied[r] : ~Wants(p, r) =>
                  /\ LayersOf(p, r) = {}
                  /\ \A ik \in Frames :
                        inv[ik[1]].route = r => Frame(ik).layer.plugin # p
            /\ (\A p \in applied[r] : ~Wants(p, r)) =>
                  /\ callback[r] = <<>>
                  /\ \A i \in InvIds : inv[i].route = r =>
                        /\ inv[i].frames = <<>>
                        /\ inv[i].st # "raised"
                        /\ inv[i].st = "returned" =>
                              inv[i].result = [route |-> r, args |-> inv[i].cargs,
                                               kwargs |-> inv[i].ckwargs])
    /\ [][\A r \in Routes, p \in PluginIds :
            (p \notin applied[r] /\ p \in applied'[r] /\ ~Wants(p, r))
               => callback'[r] = callback[r]]_vars

C1_Witness ==
    \E i \in InvIds :
        /\ inv[i].st = "returned"
        /\ applied[inv[i].route] # {}
        /\ \A p \in applied[inv[i].route] : ~Wants(p, inv[i].route)
        /\ "db" \in DOMAIN inv[i].ckwargs

\* What a frame of call i received from its caller: the host's arguments
\* for the outermost wrapper, the enclosing wrapper's for the others.
Received(i, k) ==
    IF k = 1
    THEN [args |-> inv[i].cargs, kwargs |-> inv[i].ckwargs]
    ELSE [args |-> inv[i].frames[k - 1].outargs,
          kwargs |-> inv[i].frames[k - 1].outkwargs]

\* The handle a frame's own resolution yields: the database of the frame's
\* Server object, created when the test said absent, looked up otherwise.
Resolved(f) ==
    [kind |-> "handle", server |-> f.conn.url, name |-> f.layer.db_name,
     conn |-> f.conn.id, how |-> IF f.present THEN "lookup" ELSE "create"]

\* C2: a wrapper calls its callback with the positional arguments it received
\* and with the keyword arguments it received, except that the argument
\* under the effective keyword is the handle this call resolved (created when
\* absent, looked up when present), whatever the caller passed there; the
\* bound callback returns what the original callback returns for them.
C2_InjectedCall ==
    \A i \in InvIds :
        /\ \A k \in 1..Len(inv[i].frames) :
              LET f == inv[i].frames[k]
                  kw == Expected(f.layer.plugin, inv[i].route, "keyword")
              IN /\ f.inargs = Received(i, k).args
                 /\ f.inkwargs = Received(i, k).kwargs
                 /\ f.delegated =>
                       /\ f.outargs = f.inargs
                       /\ DOMAIN f.outkwargs = DOMAIN f.inkwargs \cup {kw}
                       /\ \A n \in DOMAIN f.inkwargs \ {kw} :
                             f.outkwargs[n] = f.inkwargs[n]
                       /\ f.outkwargs[kw] = Resolved(f)
                       /\ f.conn.id > 0
        /\ inv[i].st = "returned" =>
              LET last == Received(i, Len(inv[i].frames) + 1)
              IN inv[i].result = [route |-> inv[i].route, args |-> last.args,
                                  kwargs |-> last.kwargs]

C2_Witness ==
    \E i \in InvIds :
        /\ inv[i].st = "returned"
        /\ inv[i].frames # <<>>
        /\ LET f == inv[i].frames[1]
           IN /\ f.layer.keyword \in DOMAIN inv[i].ckwargs
              /\ inv[i].result.kwargs[f.layer.keyword].how = "create"

\* The client calls a frame makes when nothing fails, in order.
FullOps(f, r) ==
    LET p == f.layer.plugin
        name == Expected(p, r, "db_name")
    IN << Op("connect", 0, Expected(p, r, "server_name"), "ok"),
          Op("contains", f.conn.id, name, "ok"),
          Op(IF f.present THEN "lookup" ELSE "create", f.conn.id, name, "ok"),
          Op("call", 0, "", "ok") >>

\* The log of a frame agrees with the full sequence up to its last entry,
\* which may have failed.
FollowsOrder(f, r) ==
    LET full == FullOps(f, r)
    IN /\ Len(f.ops) \in 1..4
       /\ \A n \in 1..Len(f.ops) :
             /\ f.ops[n].op = full[n].op
             /\ f.ops[n].arg = full[n].arg
             /\ f.ops[n].conn = full[n].conn
             /\ n < Len(f.ops) => f.ops[n].out = "ok"

\* C3: every call of a wrapper makes one resolution sequence: one connect to
\* the effective server, one membership test for the effective name on the
\* Server object that connect returned, then create if and only if the test
\* said absent and lookup if and only if it said present, and only then one
\* call of the callback; no Server object is shared with another frame, and
\* the original callback is called once, after every wrapper delegated.
C3_OneSequence ==
    /\ LET all == Frames
       IN \A ik \in all :
             LET f == Frame(ik)
             IN /\ FollowsOrder(f, inv[ik[1]].route)
                /\ f.delegated <=> (Len(f.ops) = 4)
                /\ Len(f.ops) >= 2 => f.conn.id > 0
                /\ f.delegated => f.db.conn = f.conn.id
                /\ f.conn.id > 0 =>
                      \A jl \in all \ {ik} : Frame(jl).conn.id # f.conn.id
    /\ \A i \in InvIds :
          /\ inv[i].ncalls = IF inv[i].st = "returned" THEN 1 ELSE 0
          /\ inv[i].st = "returned" =>
                /\ Len(inv[i].frames) = Len(callback[inv[i].route])
                /\ \A k \in 1..Len(inv[i].frames) : inv[i].frames[k].delegated
          /\ \A k \in 1..Len(inv[i].frames) :
                k < Len(inv[i].frames) => inv[i].frames[k].delegated

C3_Witness ==
    \E i, j \in InvIds :
        /\ i \in inv[j].before
        /\ inv[i].st = "returned" /\ inv[j].st = "returned"
        /\ inv[i].frames # <<>> /\ inv[j].frames # <<>>
        /\ HasOp(inv[i].frames[1], "create")
        /\ HasOp(inv[j].frames[1], "lookup")
        /\ inv[i].frames[1].layer = inv[j].frames[1].layer

\* An install attempt of p is the step that records it in lastSetup.
Attempt(p) ==
    /\ lastSetup'.plugin = p
    /\ lastSetup' # lastSetup \/ installed' # installed

SameKeyword(p, q) == Couch(q) /\ plugin[q].keyword = plugin[p].keyword

\* C4 as stated: an install attempt of an instance p fails if and only if
\* ANOTHER installed instance of this kind has the keyword of p.
C4_OtherInstanceOnly ==
    [][\A p \in PluginIds :
          (Attempt(p) /\ Couch(p)) =>
             (lastSetup'.raised <=>
                \E k \in 1..Len(installed) :
                    installed[k] # p /\ SameKeyword(p, installed[k]))]_vars

\* C4, amended: an install attempt of an instance p fails if and only if an
\* installed instance of this kind, p itself included, has the keyword of p;
\* a failed attempt leaves the installed plugins as they were and a
\* successful one adds p; plugins of other kinds never make it fail; so the
\* installed instances of this kind always have pairwise distinct keywords
\* and none is installed twice.
C4_ConflictIffSameKeyword ==
    /\ [][\A p \in PluginIds :
            (Attempt(p) /\ Couch(p)) =>
               /\ lastSetup'.raised <=>
                     \E k \in 1..Len(installed) : SameKeyword(p, installed[k])
               /\ installed' = IF lastSetup'.raised THEN installed
                               ELSE Append(installed, p)]_vars
    /\ [](\A k, l \in 1..Len(installed) :
            (k # l /\ Couch(installed[k]) /\ Couch(installed[l]))
               => plugin[installed[k]].keyword # plugin[installed[l]].keyword)

\* A second instance was rejected for its keyword while an instance installed
\* after a plugin of another kind with that same keyword was accepted.
C4_Witness ==
    /\ lastSetup.plugin = "p2" /\ lastSetup.raised
    /\ installed = <<"f", "p1">>
    /\ plugin["f"].keyword = plugin["p1"].keyword

\* C5: each of the three settings a route's wrapper uses is the route's
\* override when its 'couchdb' configuration has the field and the plugin's
\* own value otherwise, field by field; the decision to wrap and the name of
\* the injected argument use the effective keyword; a route without
\* overrides uses the plugin's values whatever the other route overrides.
C5_EffectiveSettings ==
    /\ \A r \in Routes :
          /\ \A p \in applied[r] : (LayersOf(p, r) # {}) <=> Wants(p, r)
          /\ \A k \in 1..Len(callback[r]) :
                LET w == callback[r][k]
                IN /\ w.plugin \in applied[r]
                   /\ w.server_name = Expected(w.plugin, r, "server_name")
                   /\ w.db_name = Expected(w.plugin, r, "db_name")
                   /\ w.keyword = Expected(w.plugin, r, "keyword")
                   /\ ~routeConf[r].present =>
                         /\ w.server_name = plugin[w.plugin].server_name
                         /\ w.db_name = plugin[w.plugin].db_name
                         /\ w.keyword = plugin[w.plugin].keyword
    /\ \A ik \in Frames :
          LET f == Frame(ik)
              r == inv[ik[1]].route
              p == f.layer.plugin
          IN /\ f.layer \in Range(callback[r])
             /\ f.ops[1].arg = Expected(p, r, "server_name")
             /\ f.conn.id > 0 => f.conn.url = Expected(p, r, "server_name")
             /\ \A n \in 2..Len(f.ops) :
                   f.ops[n].op # "call" => f.ops[n].arg = Expected(p, r, "db_name")
             /\ f.delegated =>
                   /\ f.db.name = Expected(p, r, "db_name")
                   /\ f.db.server = Expected(p, r, "server_name")
                   /\ f.outkwargs[Expected(p, r, "keyword")] = f.db

\* Only the keyword is overridden on one route: its wrapper injects under the
\* overriding keyword into the plugin's own database, and the other route's
\* wrapper injects under the plugin's own keyword.
C5_Witness ==
    \E i \in InvIds :
        /\ inv[i].st = "returned"
        /\ inv[i].route = "r1"
        /\ routeConf["r1"].present /\ DOMAIN routeConf["r1"].map = {"keyword"}
        /\ inv[i].frames # <<>>
        /\ "k" \in DOMAIN inv[i].result.kwargs
        /\ inv[i].result.kwargs["k"].name = plugin[inv[i].frames[1].layer.plugin].db_name
        /\ callback["r2"] # <<>>
        /\ callback["r2"][1].keyword = "db"

\* C6: when connect, the membership test, create or lookup raises, the call
\* ends with that same exception, the failed client call is the last thing
\* the call did, the original callback is not called and has no result, and
\* the step changes nothing but the call itself: the plugins, the bindings
\* and the databases are as before.
C6_ErrorsPropagate ==
    /\ [](\A i \in InvIds :
            /\ inv[i].st = "raised" =>
                  LET f == inv[i].frames[Len(inv[i].frames)]
                      last == f.ops[Len(f.ops)]
                  IN /\ last.op \in {"connect", "contains", "create", "lookup"}
                     /\ last.out # "ok"
                     /\ inv[i].err = last.out
                     /\ ~f.delegated
                     /\ inv[i].ncalls = 0
                     /\ inv[i].result = NoResult
            /\ inv[i].st # "raised" =>
                  /\ inv[i].err = ""
                  /\ \A k \in 1..Len(inv[i].frames) :
                        \A n \in 1..Len(inv[i].frames[k].ops) :
                            inv[i].frames[k].ops[n].out = "ok")
    /\ [][\A i \in InvIds :
            (inv[i].st # "raised" /\ inv'[i].st = "raised") =>
               /\ inv[i].st = "running"
               /\ UNCHANGED <<plugin, routeArgs, routeConf, installed, applied,
                              callback, dbs>>
               /\ \A j \in InvIds \ {i} : inv'[j] = inv[j]]_vars
    /\ [][\A i \in InvIds : inv[i].st = "raised" => inv'[i] = inv[i]]_vars

\* A lookup failed in the inner of two wrappers, after the outer one had
\* resolved its handle.
C6_Witness ==
    \E i \in InvIds :
        /\ inv[i].st = "raised"
        /\ Len(inv[i].frames) = 2
        /\ HasOp(inv[i].frames[2], "lookup")
        /\ inv[i].err = "ServerError"

\* The Server objects the frames of call i constructed.
OwnConns(i) ==
    {inv[i].frames[k].conn.id : k \in 1..Len(inv[i].frames)} \ {0}

\* C7: under any interleaving of calls, what a wrapper passes to its callback
\* under its keyword is the handle its own frame resolved on the Server
\* object its own connect constructed, with the settings of its own route; no
\* other call holds that Server object, so what the original callback receives
\* under a wrapper's keyword comes from the same call; and no step changes a
\* plugin's db_name, server_name or keyword.
C7_OwnHandle ==
    /\ [](\A i \in InvIds :
            /\ \A j \in InvIds \ {i} : OwnConns(i) \cap OwnConns(j) = {}
            /\ \A k \in 1..Len(inv[i].frames) :
                  LET f == inv[i].frames[k]
                      p == f.layer.plugin
                      r == inv[i].route
                  IN f.delegated =>
                        /\ f.outkwargs[f.layer.keyword] = Resolved(f)
                        /\ f.conn = [url |-> Expected(p, r, "server_name"),
                                     id |-> f.conn.id]
                        /\ f.db.name = Expected(p, r, "db_name")
                        /\ f.layer.keyword = Expected(p, r, "keyword")
                        /\ f.conn.id \in OwnConns(i)
            /\ inv[i].st = "returned" =>
                  \A n \in DOMAIN inv[i].result.kwargs :
                      inv[i].result.kwargs[n].kind = "handle" =>
                         inv[i].result.kwargs[n].conn \in OwnConns(i))
    /\ [][plugin' = plugin]_vars

\* Two overlapping calls of different routes, bound by different instances,
\* both returned.
C7_Witness ==
    \E i, j \in InvIds :
        /\ Overlap(i, j)
        /\ inv[i].st = "returned" /\ inv[j].st = "returned"
        /\ inv[i].route # inv[j].route
        /\ inv[i].frames # <<>> /\ inv[j].frames # <<>>
        /\ inv[i].frames[1].db.name # inv[j].frames[1].db.name

\* The create calls made so far: the call and frame that made each, the
\* database and how the call ended.
Creations ==
    {[inv |-> ik[1], frame |-> ik[2], server |-> Frame(ik).conn.url,
      name |-> Frame(ik).ops[3].arg, out |-> Frame(ik).ops[3].out] :
        ik \in {x \in Frames : HasOp(Frame(x), "create")}}

SameDatabase(c, d) ==
    /\ <<c.inv, c.frame>> # <<d.inv, d.frame>>
    /\ c.server = d.server /\ c.name = d.name

\* C8 as stated: create is called twice for a name only by calls that
\* overlap.
C8_TwoCreatesOverlap ==
    LET cs == Creations
    IN \A c, d \in cs : SameDatabase(c, d) => Overlap(c.inv, d.inv)

\* C8, amended: create is called for a name by every call that saw the name
\* absent and by no other; two calls may both see it absent and both call
\* create, and nothing in the wrapper stops the second; a call that begins
\* after another call ended calls create for the same name only if that
\* other call's create failed.
C8_CreateAfterAbsent ==
    /\ \A ik \in Frames :
          LET f == Frame(ik)
          IN /\ HasOp(f, "create") => ~f.present /\ HasOp(f, "contains")
             /\ (Len(f.ops) >= 3 /\ ~f.present) => HasOp(f, "create")
    /\ LET cs == Creations
       IN \A c, d \in cs :
             (SameDatabase(c, d) /\ ~Overlap(c.inv, d.inv)) =>
                 /\ c.inv # d.inv
                 /\ c.inv \in inv[d.inv].before => c.out # "ok"

\* The race: two overlapping calls both saw the name absent and both called
\* create; the server refused the second.
C8_Witness ==
    \E i, j \in InvIds :
        /\ Overlap(i, j)
        /\ inv[i].frames # <<>> /\ inv[j].frames # <<>>
        /\ \E c, d \in Creations :
              c.inv = i /\ d.inv = j /\ SameDatabase(c, d)
        /\ ~inv[i].frames[1].present /\ ~inv[j].frames[1].present
        /\ inv[i].st = "returned"
        /\ inv[j].st = "raised" /\ inv[j].err = "PreconditionFailed"

\* The instances applied to a route have pairwise distinct effective keywords.
DistinctKeywords(r) ==
    \A p, q \in applied[r] :
        p # q => Expected(p, r, "keyword") # Expected(q, r, "keyword")

\* C9: apply decides by the parameter names of the route's original callback
\* and the effective keyword, whatever callback it is given, and its wrapper
\* calls the callback it was given; so when the instances applied to a route
\* have pairwise distinct effective keywords, each instance whose keyword is
\* a parameter wraps the route, and a call that returns gave the original
\* callback, under each such keyword, the handle that instance's wrapper
\* resolved.
C9_WrapsByOriginal ==
    /\ [][\A r \in Routes, p \in PluginIds :
            (p \notin applied[r] /\ p \in applied'[r]) =>
               IF Wants(p, r)
               THEN /\ Len(callback'[r]) = Len(callback[r]) + 1
                    /\ Head(callback'[r]).plugin = p
                    /\ Tail(callback'[r]) = callback[r]
               ELSE callback'[r] = callback[r]]_vars
    /\ [](\A r \in Routes : DistinctKeywords(r) =>
            /\ \A p \in applied[r] : Wants(p, r) <=> Cardinality(LayersOf(p, r)) = 1
            /\ \A i \in InvIds : (inv[i].route = r /\ inv[i].st = "returned") =>
                  \A p \in applied[r] : Wants(p, r) =>
                      \E k \in 1..Len(inv[i].frames) :
                          LET f == inv[i].frames[k]
                          IN /\ f.layer.plugin = p
                             /\ inv[i].result.kwargs[Expected(p, r, "keyword")]
                                   = Resolved(f)
                             /\ f.db.name = Expected(p, r, "db_name"))

\* Two instances wrapped one route, the second one applied to the wrapper of
\* the first, and a call gave the handler both handles.
C9_Witness ==
    \E i \in InvIds :
        /\ inv[i].st = "returned"
        /\ Len(inv[i].frames) = 2
        /\ {"db", "db2"} \subseteq DOMAIN inv[i].result.kwargs
        /\ inv[i].result.kwargs["db"].kind = "handle"
        /\ inv[i].result.kwargs["db2"].kind = "handle"
        /\ inv[i].result.kwargs["db"].name # inv[i].result.kwargs["db2"].name

\* C10: on every route, at most one installed instance injects under a given
\* keyword.
C10_OneInstancePerKeyword ==
    \A r \in Routes :
        \A k, l \in 1..Len(callback[r]) :
            k # l => callback[r][k].keyword # callback[r][l].keyword

====
